---------------------------- MODULE Spec2Model ----------------------------
(***************************************************************************)
(* Model of the GPX/TCX activity reader (src/file_editor/file_editor.py):  *)
(* class `activity`, its constructor, read_file, the two lookup helpers,   *)
(* read_gpx, read_tcx and summarize; and of the statistics reporter        *)
(* (src/analyzer/analyze_lib.py): annual_analysis and monthly_analysis.    *)
(*                                                                         *)
(* An XML document is a sequence of element nodes in document order        *)
(* (preorder); every node names its parent by index (0 for the root).      *)
(* A qualified tag is a pair <<prefix, local>>; the prefix stands for the  *)
(* namespace URI that the reader's namespace table binds it to.            *)
(* Element text and attribute values are sequences of characters; the      *)
(* empty sequence is ElementTree's text None of an empty element.          *)
(***************************************************************************)
EXTENDS Integers, Sequences, FiniteSets, TLC

VARIABLES
    file,     \* the input: path, whether it exists, its content
    pc,       \* position of the caller / constructor
    self,     \* the activity object's attribute dictionary (insertion ordered)
    err,      \* kind of the exception that escaped, "none" if none
    parsed,   \* number of ET.parse calls made so far
    out,      \* lines printed by summarize
    reads,    \* <<row, column>> indices of self.data read by summarize
    history,  \* the outcomes of the constructions that came before this one
    df,       \* the statistics reporter's processed dataframe, in date order
    annual,   \* what the last annual_analysis call computed and wrote
    monthly   \* what the last monthly_analysis call computed and wrote

vars == <<file, pc, self, err, parsed, out, reads, history, df, annual, monthly>>

\* what the reader's steps leave alone
others == <<history, df, annual, monthly>>

\* no report written yet
NoReport == [kind |-> "none"]

-----------------------------------------------------------------------------
(* Bounds of the input space *)

\* at most this many Trackpoint / trkpt elements in one document
MaxPoints == 3
\* at most this many Track / trkseg elements in one document
MaxTracks == 2
\* at most this many of the summary elements are omitted from one document
MaxMissing == 2
\* at most this many constructions, one after the other, in one run
MaxParses == 3
\* at most this many activities in the reporter's dataframe
MaxActivities == 2

-----------------------------------------------------------------------------
(* Python values *)

PyNone == [t |-> "None"]
PyStr(s) == [t |-> "str", s |-> s]
PyFloat(n, d) == [t |-> "float", num |-> n, den |-> d]
Zero == PyFloat(0, 1)

\* result of an evaluation that may raise
Ok(v) == [err |-> "none", val |-> v]
Raise(e) == [err |-> e, val |-> PyNone]

Digits == {"0", "1", "2", "3", "4", "5", "6", "7", "8", "9"}

DigitVal(c) ==
    CASE c = "0" -> 0 [] c = "1" -> 1 [] c = "2" -> 2 [] c = "3" -> 3
      [] c = "4" -> 4 [] c = "5" -> 5 [] c = "6" -> 6 [] c = "7" -> 7
      [] c = "8" -> 8 [] c = "9" -> 9

RECURSIVE Normalize(_, _)
\* 450/10 and 45/1 are the same float
Normalize(n, d) ==
    IF d > 1 /\ n % 10 = 0 THEN Normalize(n \div 10, d \div 10) ELSE PyFloat(n, d)

RECURSIVE ScanDecimal(_, _, _, _, _, _)
\* digits with at most one '.', at least one digit
ScanDecimal(s, i, n, d, dot, nd) ==
    IF i > Len(s)
    THEN IF nd = 0 THEN Raise("ValueError") ELSE Ok(Normalize(n, d))
    ELSE IF s[i] \in Digits
         THEN ScanDecimal(s, i + 1, 10 * n + DigitVal(s[i]),
                          IF dot THEN 10 * d ELSE d, dot, nd + 1)
         ELSE IF s[i] = "." /\ ~dot
              THEN ScanDecimal(s, i + 1, n, d, TRUE, nd)
              ELSE Raise("ValueError")

\* Python's float(text): None is a TypeError, a non-number a ValueError
ToFloat(s) ==
    IF s = <<>> THEN Raise("TypeError")
    ELSE IF s[1] = "-"
         THEN LET r == ScanDecimal(Tail(s), 1, 0, 1, FALSE, 0)
              IN IF r.err = "none" THEN Ok(PyFloat(0 - r.val.num, r.val.den)) ELSE r
         ELSE IF s[1] = "+" THEN ScanDecimal(Tail(s), 1, 0, 1, FALSE, 0)
              ELSE ScanDecimal(s, 1, 0, 1, FALSE, 0)

\* res.text of an element: None when the element is empty
TextOf(s) == IF s = <<>> THEN PyNone ELSE PyStr(s)

\* str.endswith
EndsWith(s, suf) ==
    /\ Len(s) >= Len(suf)
    /\ SubSeq(s, Len(s) - Len(suf) + 1, Len(s)) = suf

-----------------------------------------------------------------------------
(* ElementTree: find / findall over the path expressions the reader uses *)

NoAttrs == [a \in {} |-> <<>>]

Node(tag, attrs, text) == [tag |-> tag, parent |-> 0, text |-> text, attrs |-> attrs]

\* an element with its subtrees, as a preorder node sequence
Elem(tag, attrs, text, kids) ==
    LET F[i \in 0..Len(kids)] ==
            IF i = 0 THEN <<Node(tag, attrs, text)>>
            ELSE LET acc == F[i - 1]
                     off == Len(acc)
                     kid == kids[i]
                 IN acc \o [j \in 1..Len(kid) |->
                              [kid[j] EXCEPT !.parent = IF @ = 0 THEN 1 ELSE @ + off]]
    IN F[Len(kids)]

Leaf(tag, text) == Elem(tag, NoAttrs, text, <<>>)

RECURSIVE IsDescendant(_, _, _)
IsDescendant(doc, j, c) ==
    /\ doc[j].parent # 0
    /\ \/ doc[j].parent = c
       \/ IsDescendant(doc, doc[j].parent, c)

\* the indices in S, ascending
RECURSIVE Ascending(_, _, _)
Ascending(S, i, n) ==
    IF i > n THEN <<>>
    ELSE (IF i \in S THEN <<i>> ELSE <<>>) \o Ascending(S, i + 1, n)

\* one location step from one context element: './/tag' or './tag'
Step(doc, c, tag, desc) ==
    Ascending({j \in 1..Len(doc) :
                 /\ doc[j].tag = tag
                 /\ IF desc THEN IsDescendant(doc, j, c) ELSE doc[j].parent = c},
              1, Len(doc))

RECURSIVE StepAll(_, _, _, _)
\* a step applied to each context in turn, results concatenated
StepAll(doc, ctxs, tag, desc) ==
    IF ctxs = <<>> THEN <<>>
    ELSE Step(doc, Head(ctxs), tag, desc) \o StepAll(doc, Tail(ctxs), tag, desc)

RECURSIVE Select(_, _, _, _)
Select(doc, ctxs, tags, desc) ==
    IF tags = <<>> THEN ctxs
    ELSE Select(doc, StepAll(doc, ctxs, Head(tags), desc), Tail(tags), FALSE)

\* a path expression: './/a/b' is Path(TRUE, <<a, b>>), './a/b' is Path(FALSE, <<a, b>>)
Path(desc, tags) == [desc |-> desc, tags |-> tags]

\* element.findall(path, namespaces): a prefix outside the table is a SyntaxError
findall(doc, c, path, ns) ==
    IF \E k \in 1..Len(path.tags) : path.tags[k][1] \notin ns
    THEN Raise("SyntaxError")
    ELSE Ok(Select(doc, <<c>>, path.tags, path.desc))

\* element.find(path, namespaces): the first match, or 0 for None
find(doc, c, path, ns) ==
    LET r == findall(doc, c, path, ns)
    IN IF r.err # "none" THEN r
       ELSE Ok(IF r.val = <<>> THEN 0 ELSE Head(r.val))

-----------------------------------------------------------------------------
(* The activity object: self.__dict__, in insertion order *)

NewObject == [order |-> <<>>, d |-> [k \in {} |-> PyNone]]

\* self.k = v: a new key goes last, an existing key keeps its place
SetAttr(o, k, v) ==
    [order |-> IF k \in DOMAIN o.d THEN o.order ELSE Append(o.order, k),
     d |-> (k :> v) @@ o.d]

HasAttr(o, k) == k \in DOMAIN o.d

\* a method body in progress: the object so far and the exception raised, if any
Frame(o) == [o |-> o, err |-> "none"]

\* one assignment statement self.k = <r>; skipped once an exception is in flight
Then(fr, k, r) ==
    IF fr.err # "none" THEN fr
    ELSE IF r.err # "none" THEN [fr EXCEPT !.err = r.err]
    ELSE [fr EXCEPT !.o = SetAttr(fr.o, k, r.val)]

Unknown == PyStr(<<"U", "n", "k", "n", "o", "w", "n">>)

\* faulty variant: the text is read without looking whether a match was found
findChildTag_unguarded(doc, ns, element, tag, tofloat, default) ==
    LET res == find(doc, element, tag, ns)
    IN IF res.err # "none" THEN res
       ELSE IF res.val = 0 THEN Raise("AttributeError")
       ELSE IF tofloat THEN ToFloat(doc[res.val].text)
       ELSE Ok(TextOf(doc[res.val].text))

\* __findChildTag__: None / default when there is no match, else the text,
\* converted with float() when tofloat
findChildTag(doc, ns, element, tag, tofloat, default) ==
    LET res == find(doc, element, tag, ns)
    IN IF res.err # "none" THEN res
       ELSE IF res.val = 0 THEN Ok(default)
       ELSE IF tofloat THEN ToFloat(doc[res.val].text)
       ELSE Ok(TextOf(doc[res.val].text))

\* __getAttribute__: element is 0 when the caller passes None
getAttribute(doc, element, tag, tofloat, default) ==
    IF element = 0 THEN Raise("AttributeError")
    ELSE IF tag \notin DOMAIN doc[element].attrs THEN Ok(default)
    ELSE IF tofloat THEN ToFloat(doc[element].attrs[tag])
    ELSE Ok(PyStr(doc[element].attrs[tag]))

\* the list [time, lat, lon, ele, dist, bpm]; the first lookup that raises wins
RowOf(rs) ==
    IF \E k \in 1..6 : rs[k].err # "none"
    THEN Raise(rs[CHOOSE k \in 1..6 :
                     /\ rs[k].err # "none"
                     /\ \A j \in 1..(k - 1) : rs[j].err = "none"].err)
    ELSE Ok([k \in 1..6 |-> rs[k].val])

\* np.array(data, dtype=object)
NdArray(rows) == [t |-> "ndarray", rows |-> rows]

\* the value assigned to self.data once the loop has run
TrackData(r) == IF r.err # "none" THEN r ELSE Ok(NdArray(r.val))

-----------------------------------------------------------------------------
(* Namespace tables and tags *)

GpxNamespace == {"gpx", "gpxtpx", "gpxx"}
TcxNamespace == {"tcx", "ns3"}

Tcx(name) == <<"tcx", name>>
Gpx(name) == <<"gpx", name>>
Gpxtpx(name) == <<"gpxtpx", name>>

Suffix_gpx == <<".", "g", "p", "x">>
Suffix_tcx == <<".", "t", "c", "x">>

-----------------------------------------------------------------------------
(* read_gpx *)

\* faulty variant: the commented-out lookup of a distance child is live
gpx_dist_lookup(doc, ns, trackpoint) ==
    findChildTag(doc, ns, trackpoint, Path(FALSE, <<Gpx("dist")>>), TRUE, PyNone)

\* dist = 0.0 (the lookup of a distance child is commented out)
gpx_dist(doc, ns, trackpoint) == Ok(Zero)

\* findall('.//gpx:trkseg/gpx:trkpt')
gpx_trackpoints(doc, ns, root) ==
    findall(doc, root, Path(TRUE, <<Gpx("trkseg"), Gpx("trkpt")>>), ns)

gpx_row(doc, ns, trackpoint) ==
    RowOf(<<findChildTag(doc, ns, trackpoint, Path(FALSE, <<Gpx("time")>>), FALSE, PyNone),
            getAttribute(doc, trackpoint, "lat", TRUE, PyNone),
            getAttribute(doc, trackpoint, "lon", TRUE, PyNone),
            findChildTag(doc, ns, trackpoint, Path(FALSE, <<Gpx("ele")>>), TRUE, PyNone),
            gpx_dist(doc, ns, trackpoint),
            findChildTag(doc, ns, trackpoint, Path(TRUE, <<Gpxtpx("hr")>>), TRUE, PyNone)>>)

RECURSIVE gpx_rows(_, _, _, _, _)
\* the for loop over the trackpoints found: data.append(row), stopping at a raise
gpx_rows(doc, ns, tps, i, acc) ==
    IF i > Len(tps) THEN Ok(acc)
    ELSE LET r == gpx_row(doc, ns, tps[i])
         IN IF r.err # "none" THEN r ELSE gpx_rows(doc, ns, tps, i + 1, Append(acc, r.val))

gpx_data(doc, ns, root) ==
    LET found == gpx_trackpoints(doc, ns, root)
    IN IF found.err # "none" THEN found
       ELSE TrackData(gpx_rows(doc, ns, found.val, 1, <<>>))

read_gpx(o, doc) ==
    LET ns == o.d["namespace"].prefixes
        root == o.d["root"].i
        s1 == Then(Frame(o), "sport",
                   findChildTag(doc, ns, root, Path(TRUE, <<Gpx("type")>>), FALSE, Unknown))
        s2 == Then(s1, "start_time",
                   findChildTag(doc, ns, root,
                                Path(TRUE, <<Gpx("metadata"), Gpx("time")>>), FALSE, Unknown))
        s3 == Then(s2, "total_time", Ok(Zero))
        s4 == Then(s3, "total_dist", Ok(Zero))
        s5 == Then(s4, "calories", Ok(Zero))
        s6 == Then(s5, "avg_bpm", Ok(Zero))
        s7 == Then(s6, "max_bpm", Ok(Zero))
        s8 == Then(s7, "device", Ok(Unknown))
    IN Then(s8, "data", gpx_data(doc, ns, root))

-----------------------------------------------------------------------------
(* read_tcx *)

tcx_row(doc, ns, trackpoint) ==
    RowOf(<<findChildTag(doc, ns, trackpoint, Path(FALSE, <<Tcx("Time")>>), FALSE, PyNone),
            findChildTag(doc, ns, trackpoint,
                         Path(FALSE, <<Tcx("Position"), Tcx("LatitudeDegrees")>>), TRUE, PyNone),
            findChildTag(doc, ns, trackpoint,
                         Path(FALSE, <<Tcx("Position"), Tcx("LongitudeDegrees")>>), TRUE, PyNone),
            findChildTag(doc, ns, trackpoint, Path(FALSE, <<Tcx("AltitudeMeters")>>), TRUE, PyNone),
            findChildTag(doc, ns, trackpoint, Path(FALSE, <<Tcx("DistanceMeters")>>), TRUE, PyNone),
            findChildTag(doc, ns, trackpoint,
                         Path(FALSE, <<Tcx("HeartRateBpm"), Tcx("Value")>>), TRUE, PyNone)>>)

\* faulty variant: only the first Track is searched for trackpoints
tcx_trackpoints_first_track(doc, ns, root) ==
    LET track == find(doc, root, Path(TRUE, <<Tcx("Track")>>), ns)
    IN IF track.err # "none" THEN track
       ELSE IF track.val = 0 THEN Ok(<<>>)
       ELSE findall(doc, track.val, Path(FALSE, <<Tcx("Trackpoint")>>), ns)

\* findall('.//tcx:Track/tcx:Trackpoint')
tcx_trackpoints(doc, ns, root) ==
    findall(doc, root, Path(TRUE, <<Tcx("Track"), Tcx("Trackpoint")>>), ns)

\* faulty variant: only a lap's own DistanceMeters counts as the total
tcx_total_dist_lap_only(doc, ns, root) ==
    findChildTag(doc, ns, root, Path(TRUE, <<Tcx("Lap"), Tcx("DistanceMeters")>>), TRUE, Zero)

\* total_dist: the first DistanceMeters anywhere below the root
tcx_total_dist(doc, ns, root) ==
    findChildTag(doc, ns, root, Path(TRUE, <<Tcx("DistanceMeters")>>), TRUE, Zero)

\* activity = root.find('.//tcx:Activity'); sport = __getAttribute__(activity, 'Sport', ...)
tcx_sport(doc, ns, root) ==
    LET activity == find(doc, root, Path(TRUE, <<Tcx("Activity")>>), ns)
    IN IF activity.err # "none" THEN activity
       ELSE getAttribute(doc, activity.val, "Sport", FALSE, Unknown)

RECURSIVE tcx_rows(_, _, _, _, _)
\* the for loop over the trackpoints found: data.append(row), stopping at a raise
tcx_rows(doc, ns, tps, i, acc) ==
    IF i > Len(tps) THEN Ok(acc)
    ELSE LET r == tcx_row(doc, ns, tps[i])
         IN IF r.err # "none" THEN r ELSE tcx_rows(doc, ns, tps, i + 1, Append(acc, r.val))

tcx_data(doc, ns, root) ==
    LET found == tcx_trackpoints(doc, ns, root)
    IN IF found.err # "none" THEN found
       ELSE TrackData(tcx_rows(doc, ns, found.val, 1, <<>>))

read_tcx(o, doc) ==
    LET ns == o.d["namespace"].prefixes
        root == o.d["root"].i
        s1 == Then(Frame(o), "sport", tcx_sport(doc, ns, root))
        s2 == Then(s1, "start_time",
                   findChildTag(doc, ns, root, Path(TRUE, <<Tcx("Id")>>), FALSE, Unknown))
        \* the total activity time is stored under start_time as well
        s3 == Then(s2, "start_time",
                   findChildTag(doc, ns, root, Path(TRUE, <<Tcx("TotalTimeSeconds")>>), TRUE, Zero))
        s4 == Then(s3, "total_dist", tcx_total_dist(doc, ns, root))
        s5 == Then(s4, "calories",
                   findChildTag(doc, ns, root, Path(TRUE, <<Tcx("Calories")>>), TRUE, Zero))
        s6 == Then(s5, "avg_bpm",
                   findChildTag(doc, ns, root,
                                Path(TRUE, <<Tcx("AverageHeartRateBpm"), Tcx("Value")>>), TRUE, Zero))
        s7 == Then(s6, "max_bpm",
                   findChildTag(doc, ns, root,
                                Path(TRUE, <<Tcx("MaximumHeartRateBpm"), Tcx("Value")>>), TRUE, Zero))
        s8 == Then(s7, "device",
                   findChildTag(doc, ns, root,
                                Path(TRUE, <<Tcx("Creator"), Tcx("Name")>>), FALSE, Unknown))
    IN Then(s8, "data", tcx_data(doc, ns, root))

-----------------------------------------------------------------------------
(* summarize *)

PyInt(n) == [t |-> "int", n |-> n]
PyBool(b) == [t |-> "bool", b |-> b]

Line(k, v) == [key |-> k, val |-> v]

\* the attributes the metadata listing leaves out
Hidden == {"path", "namespace", "root", "data"}

\* the loop over self.__dict__.items()
RECURSIVE MetadataLines(_, _)
MetadataLines(o, i) ==
    IF i > Len(o.order) THEN <<>>
    ELSE (IF o.order[i] \notin Hidden
          THEN <<Line(o.order[i], o.d[o.order[i]])>> ELSE <<>>)
         \o MetadataLines(o, i + 1)

\* self.data[r, c], zero based
ReadCell(data, r, c) ==
    IF r < Len(data.rows) /\ c < 6 THEN Ok(data.rows[r + 1][c + 1])
    ELSE Raise("IndexError")

\* x is not None
IsNotNone(cell) ==
    IF cell.err # "none" THEN cell ELSE Ok(PyBool(cell.val # PyNone))

\* x > 0.0: ordering None (or a str) against a float is a TypeError
GreaterThanZero(cell) ==
    IF cell.err # "none" THEN cell
    ELSE IF cell.val.t = "float" THEN Ok(PyBool(cell.val.num > 0))
    ELSE Raise("TypeError")

\* a and b, b evaluated only when a is true
AndAlso(a, b) ==
    IF a.err # "none" THEN a
    ELSE IF ~a.val.b THEN a
    ELSE b

\* a print(...) call whose argument reads the cells idxs
Emit(fr, k, idxs, r) ==
    IF fr.err # "none" THEN fr
    ELSE [out |-> IF r.err = "none" THEN Append(fr.out, Line(k, r.val)) ELSE fr.out,
          reads |-> fr.reads \cup idxs,
          err |-> r.err]

\* faulty variant: the detail flags are printed for every nonempty track
detail_guard_nonempty(n) == n > 0

\* if n>2: the detail flags are printed
detail_guard(n) == n > 2

summarize(o) ==
    LET data == o.d["data"]
        n == Len(data.rows)
        head == <<Line("path", o.d["path"]), Line("METADATA", PyNone)>>
                  \o MetadataLines(o, 1)
                  \o <<Line("TRACK DATA", PyNone), Line("trackpoints", PyInt(n))>>
        f0 == [out |-> head, reads |-> {}, err |-> "none"]
        lat == IsNotNone(ReadCell(data, 0, 1))
        f1 == Emit(f0, "with time", {<<0, 0>>}, IsNotNone(ReadCell(data, 0, 0)))
        f2 == Emit(f1, "with coord",
                    {<<0, 1>>} \cup (IF lat.err = "none" /\ lat.val.b THEN {<<0, 2>>} ELSE {}),
                    AndAlso(lat, IsNotNone(ReadCell(data, 0, 2))))
        f3 == Emit(f2, "with ele", {<<0, 3>>}, IsNotNone(ReadCell(data, 0, 3)))
        f4 == Emit(f3, "with dist", {<<1, 4>>}, GreaterThanZero(ReadCell(data, 1, 4)))
        f5 == Emit(f4, "with bpm", {<<0, 5>>}, IsNotNone(ReadCell(data, 0, 5)))
    IN IF detail_guard(n) THEN f5 ELSE f0

Flags == {"with time", "with coord", "with ele", "with dist", "with bpm"}

-----------------------------------------------------------------------------
(* Input files: paths and documents *)

Path_tcx == <<"a", ".", "t", "c", "x">>
Path_gpx == <<"a", ".", "g", "p", "x">>
Path_fit == <<"a", ".", "f", "i", "t">>
Path_GPX == <<"a", ".", "G", "P", "X">>
Paths == {Path_tcx, Path_gpx, Path_fit, Path_GPX}

Opt(present, tree) == IF present THEN <<tree>> ELSE <<>>

\* point sequences of length at most MaxPoints over the given shapes
PointSeqs(shapes) == UNION {[1..n -> shapes] : n \in 0..MaxPoints}

\* where a point sequence of length n is cut into k consecutive tracks
Cuts(n, k) ==
    {c \in [0..k -> 0..n] :
        /\ c[0] = 0
        /\ c[k] = n
        /\ \A i \in 1..k : c[i - 1] <= c[i]}

\* every way to lay at most MaxPoints points out over at most MaxTracks tracks
Layouts(shapes) ==
    {<<>>} \cup
    UNION {UNION {{[i \in 1..k |-> SubSeq(pts, c[i - 1] + 1, c[i])] : c \in Cuts(Len(pts), k)}
                  : k \in 1..MaxTracks}
           : pts \in PointSeqs(shapes)}

\* ---- TCX

TcxSummaryTags == {"Id", "TotalTimeSeconds", "DistanceMeters", "Calories",
                   "AverageHeartRateBpm", "MaximumHeartRateBpm", "Creator"}

TcxFull == [Time |-> <<"t", "2">>, Lat |-> <<"4", "5", ".", "0">>, Lon |-> <<"7", ".", "0">>,
            Alt |-> <<"1", "0", "0", "5">>, Dist |-> <<"5", "0">>, Hr |-> <<"1", "2", "0">>]
TcxFirst == [Time |-> <<"t", "1">>, Lat |-> <<"4", "5", ".", "0">>, Lon |-> <<"7", ".", "0">>,
             Alt |-> <<"1", "0", "0", "0">>, Dist |-> <<"0">>]
TcxBare == [f \in {} |-> <<>>]
TcxShapes == {TcxFull, TcxFirst, TcxBare}
\* element content that float() rejects
TcxNotANumber == [Time |-> <<"t", "3">>, Alt |-> <<"a", "b", "c">>]
TcxEmptyElement == [Time |-> <<"t", "4">>, Dist |-> <<>>]

TcxTrackpoint(sh) ==
    LET has(f) == f \in DOMAIN sh
    IN Elem(Tcx("Trackpoint"), NoAttrs, <<>>,
            Opt(has("Time"), Leaf(Tcx("Time"), sh["Time"]))
            \o Opt(has("Lat") \/ has("Lon"),
                   Elem(Tcx("Position"), NoAttrs, <<>>,
                        Opt(has("Lat"), Leaf(Tcx("LatitudeDegrees"), sh["Lat"]))
                        \o Opt(has("Lon"), Leaf(Tcx("LongitudeDegrees"), sh["Lon"]))))
            \o Opt(has("Alt"), Leaf(Tcx("AltitudeMeters"), sh["Alt"]))
            \o Opt(has("Dist"), Leaf(Tcx("DistanceMeters"), sh["Dist"]))
            \o Opt(has("Hr"),
                   Elem(Tcx("HeartRateBpm"), NoAttrs, <<>>, <<Leaf(Tcx("Value"), sh["Hr"])>>)))

TcxTrack(shs) == Elem(Tcx("Track"), NoAttrs, <<>>, [i \in 1..Len(shs) |-> TcxTrackpoint(shs[i])])

\* act: "sport" (an Activity with a Sport attribute), "nosport" (an Activity
\* without one) or "none" (a Course instead of an Activity); missing: the summary
\* elements left out; tracks: the Track elements of the lap; stray: Trackpoint
\* elements put directly under the lap, outside any Track
TcxDoc(act, missing, tracks, stray) ==
    LET has(t) == t \notin missing
        lap == Elem(Tcx("Lap"), NoAttrs, <<>>,
                    Opt(has("TotalTimeSeconds"), Leaf(Tcx("TotalTimeSeconds"), <<"6", "0", "0">>))
                    \o Opt(has("DistanceMeters"), Leaf(Tcx("DistanceMeters"), <<"5", "0", "0", "0">>))
                    \o Opt(has("Calories"), Leaf(Tcx("Calories"), <<"3", "0", "0">>))
                    \o Opt(has("AverageHeartRateBpm"),
                           Elem(Tcx("AverageHeartRateBpm"), NoAttrs, <<>>,
                                <<Leaf(Tcx("Value"), <<"1", "4", "0">>)>>))
                    \o Opt(has("MaximumHeartRateBpm"),
                           Elem(Tcx("MaximumHeartRateBpm"), NoAttrs, <<>>,
                                <<Leaf(Tcx("Value"), <<"1", "7", "0">>)>>))
                    \o [i \in 1..Len(stray) |-> TcxTrackpoint(stray[i])]
                    \o [i \in 1..Len(tracks) |-> TcxTrack(tracks[i])])
        kids == Opt(has("Id"), Leaf(Tcx("Id"), <<"t", "0">>))
                \o <<lap>>
                \o Opt(has("Creator"),
                       Elem(Tcx("Creator"), NoAttrs, <<>>, <<Leaf(Tcx("Name"), <<"f", "r">>)>>))
        holder == IF act = "none"
                  THEN Elem(Tcx("Courses"), NoAttrs, <<>>,
                            <<Elem(Tcx("Course"), NoAttrs, <<>>, kids)>>)
                  ELSE Elem(Tcx("Activities"), NoAttrs, <<>>,
                            <<Elem(Tcx("Activity"),
                                   IF act = "sport" THEN [Sport |-> <<"R", "u", "n">>] ELSE NoAttrs,
                                   <<>>, kids)>>)
    IN Elem(Tcx("TrainingCenterDatabase"), NoAttrs, <<>>, <<holder>>)

TcxActs == {"sport", "nosport", "none"}

\* the two trackpoints of the worked scenario, in one track
TcxBaseTracks == <<<<TcxFirst, TcxFull>>>>

TcxDocs ==
    {TcxDoc(a, m, TcxBaseTracks, <<>>) :
        a \in TcxActs, m \in {x \in SUBSET TcxSummaryTags : Cardinality(x) <= MaxMissing}}
    \cup {TcxDoc("sport", m, l, <<>>) :
            m \in {{}, {"DistanceMeters", "TotalTimeSeconds"}}, l \in Layouts(TcxShapes)}
    \cup {TcxDoc("sport", {}, <<<<TcxFull, sh>>>>, <<>>) : sh \in {TcxNotANumber, TcxEmptyElement}}
    \cup {TcxDoc("sport", {}, <<<<TcxFull>>>>, <<TcxFirst>>)}

\* ---- GPX

GpxFull == [lat |-> <<"4", "5", ".", "0">>, lon |-> <<"7", ".", "0">>, time |-> <<"t", "2">>,
            ele |-> <<"1", "0", "0", "5">>, hr |-> <<"1", "2", "0">>]
GpxDist == [lat |-> <<"4", "5", ".", "0">>, lon |-> <<"7", ".", "0">>, time |-> <<"t", "1">>,
            dist |-> <<"5", "0">>]
GpxBare == [f \in {} |-> <<>>]
GpxShapes == {GpxFull, GpxDist, GpxBare}

GpxTrackpoint(sh) ==
    LET has(f) == f \in DOMAIN sh
    IN Elem(Gpx("trkpt"),
            [a \in {"lat", "lon"} \cap DOMAIN sh |-> sh[a]], <<>>,
            Opt(has("ele"), Leaf(Gpx("ele"), sh["ele"]))
            \o Opt(has("time"), Leaf(Gpx("time"), sh["time"]))
            \o Opt(has("dist"), Leaf(Gpx("dist"), sh["dist"]))
            \o Opt(has("hr"),
                   Elem(Gpx("extensions"), NoAttrs, <<>>,
                        <<Elem(Gpxtpx("TrackPointExtension"), NoAttrs, <<>>,
                               <<Leaf(Gpxtpx("hr"), sh["hr"])>>)>>)))

GpxSegment(shs) == Elem(Gpx("trkseg"), NoAttrs, <<>>, [i \in 1..Len(shs) |-> GpxTrackpoint(shs[i])])

GpxOptional == {"metadata", "time", "type", "totals"}

\* has: which of the metadata element, its time child, the track's type element
\* and a block of summary-like extension elements the document holds
GpxDoc(has, segments) ==
    LET totals == Elem(Gpx("extensions"), NoAttrs, <<>>,
                       <<Leaf(Gpx("TotalTimeSeconds"), <<"6", "0", "0">>),
                         Leaf(Gpx("DistanceMeters"), <<"5", "0", "0", "0">>),
                         Leaf(Gpx("Calories"), <<"3", "0", "0">>),
                         Leaf(Gpx("dist"), <<"5", "0", "0", "0">>),
                         Leaf(Tcx("DistanceMeters"), <<"5", "0", "0", "0">>),
                         Elem(Gpx("Creator"), NoAttrs, <<>>, <<Leaf(Gpx("Name"), <<"f", "r">>)>>)>>)
        meta == Elem(Gpx("metadata"), NoAttrs, <<>>,
                     Opt("time" \in has, Leaf(Gpx("time"), <<"t", "0">>))
                     \o Opt("totals" \in has, totals))
        trk == Elem(Gpx("trk"), NoAttrs, <<>>,
                    Opt("type" \in has, Leaf(Gpx("type"), <<"r", "u", "n">>))
                    \o [i \in 1..Len(segments) |-> GpxSegment(segments[i])])
    IN Elem(Gpx("gpx"), NoAttrs, <<>>, Opt("metadata" \in has, meta) \o <<trk>>)

GpxBaseSegments == <<<<GpxDist, GpxFull>>>>

GpxDocs ==
    {GpxDoc(h, GpxBaseSegments) : h \in SUBSET GpxOptional}
    \cup {GpxDoc(GpxOptional, l) : l \in Layouts(GpxShapes)}

\* ---- files

File(p, e, w, d) == [path |-> p, exists |-> e, wellformed |-> w, doc |-> d]

SampleDocs == {TcxDoc("sport", {}, TcxBaseTracks, <<>>), GpxDoc(GpxOptional, GpxBaseSegments)}

Files ==
    {File(Path_tcx, TRUE, TRUE, d) : d \in TcxDocs}
    \cup {File(Path_gpx, TRUE, TRUE, d) : d \in GpxDocs}
    \cup {File(p, TRUE, TRUE, d) : p \in Paths, d \in SampleDocs}
    \cup {File(p, TRUE, FALSE, <<>>) : p \in Paths}
    \cup {File(p, FALSE, FALSE, <<>>) : p \in Paths}

-----------------------------------------------------------------------------
(* The constructor, read_file and the caller's summarize, step by step *)

Init ==
    /\ file \in Files
    /\ pc = "init"
    /\ self = NewObject
    /\ err = "none"
    /\ parsed = 0
    /\ out = <<>>
    /\ reads = {}
    /\ history = <<>>
    /\ df = <<>>
    /\ annual = NoReport
    /\ monthly = NoReport

\* faulty variant: the constructor does not look whether the path exists
path_exists_unchecked(f) == TRUE

\* os.path.exists(file_path)
path_exists(f) == f.exists

\* ET.parse(self.path): opens the file and parses all of it
ET_parse(f) ==
    IF ~f.exists THEN Raise("FileNotFoundError")
    ELSE IF ~f.wellformed THEN Raise("ParseError")
    ELSE Ok([t |-> "Element", i |-> 1])

\* activity.__init__: the existence check, then self.path = file_path
Construct ==
    /\ pc = "init"
    /\ IF path_exists(file)
       THEN /\ self' = SetAttr(self, "path", PyStr(file.path))
            /\ pc' = "read_file"
            /\ err' = err
       ELSE /\ self' = self
            /\ pc' = "raised"
            /\ err' = "FileNotFoundError"
    /\ UNCHANGED <<file, parsed, out, reads>>
    /\ UNCHANGED others

\* read_file, first half: tree = ET.parse(self.path); self.root = tree.getroot()
Parse ==
    /\ pc = "read_file"
    /\ parsed' = parsed + 1
    /\ LET r == ET_parse(file)
       IN IF r.err = "none"
          THEN /\ self' = SetAttr(self, "root", r.val)
               /\ pc' = "dispatch"
               /\ err' = err
          ELSE /\ self' = self
               /\ pc' = "raised"
               /\ err' = r.err
    /\ UNCHANGED <<file, out, reads>>
    /\ UNCHANGED others

\* read_file, second half: the suffix decides the namespace table and the reader
Dispatch ==
    /\ pc = "dispatch"
    /\ IF EndsWith(self.d["path"].s, Suffix_gpx)
       THEN /\ self' = SetAttr(self, "namespace", [t |-> "dict", prefixes |-> GpxNamespace])
            /\ pc' = "read_gpx"
            /\ err' = err
       ELSE IF EndsWith(self.d["path"].s, Suffix_tcx)
       THEN /\ self' = SetAttr(self, "namespace", [t |-> "dict", prefixes |-> TcxNamespace])
            /\ pc' = "read_tcx"
            /\ err' = err
       ELSE /\ self' = self
            /\ pc' = "raised"
            /\ err' = "TypeError"
    /\ UNCHANGED <<file, parsed, out, reads>>
    /\ UNCHANGED others

\* the reader's result: the object is complete, or the exception escapes
Finish(fr) ==
    /\ self' = fr.o
    /\ pc' = IF fr.err = "none" THEN "done" ELSE "raised"
    /\ err' = fr.err
    /\ UNCHANGED <<file, parsed, out, reads>>
    /\ UNCHANGED others

ReadGpx ==
    /\ pc = "read_gpx"
    /\ Finish(read_gpx(self, file.doc))

ReadTcx ==
    /\ pc = "read_tcx"
    /\ Finish(read_tcx(self, file.doc))

\* the caller calls summarize() on the constructed object
Summarize ==
    /\ pc = "done"
    /\ LET r == summarize(self)
       IN /\ out' = r.out
          /\ reads' = r.reads
          /\ err' = r.err
          /\ pc' = IF r.err = "none" THEN "summarized" ELSE "summarize_raised"
    /\ UNCHANGED <<file, self, parsed>>
    /\ UNCHANGED others

Next ==
    \/ Construct
    \/ Parse
    \/ Dispatch
    \/ ReadGpx
    \/ ReadTcx
    \/ Summarize

Spec == Init /\ [][Next]_vars

-----------------------------------------------------------------------------
(* A caller that constructs one activity after the other *)

\* the files the caller picks from: they stay as they are between constructions
TwiceFiles ==
    {File(Path_tcx, TRUE, TRUE, TcxDoc("sport", {}, TcxBaseTracks, <<>>)),
     File(Path_tcx, TRUE, TRUE, TcxDoc("none", {}, TcxBaseTracks, <<>>)),
     File(Path_tcx, TRUE, TRUE, TcxDoc("sport", {}, <<<<TcxFull, TcxNotANumber>>>>, <<>>)),
     File(Path_gpx, TRUE, TRUE, GpxDoc(GpxOptional, GpxBaseSegments)),
     File(Path_fit, TRUE, TRUE, GpxDoc(GpxOptional, GpxBaseSegments)),
     File(Path_tcx, TRUE, FALSE, <<>>),
     File(Path_gpx, FALSE, FALSE, <<>>)}

Ended == pc \in {"raised", "done", "summarized", "summarize_raised"}

\* what a construction left its caller with: the record, or the exception
Outcome ==
    [file |-> file,
     err |-> IF pc = "raised" THEN err ELSE "none",
     record |-> IF pc = "raised" THEN NewObject ELSE self]

\* faulty variant: the next construction fills the object of the previous one
new_instance_reused(prev) == prev

\* activity(file_path) makes a new instance, its __dict__ empty
new_instance(prev) == NewObject

InitTwice ==
    /\ Init
    /\ file \in TwiceFiles

\* the caller constructs another activity, from the same or another file
Restart ==
    /\ Ended
    /\ Len(history) + 1 < MaxParses
    /\ history' = Append(history, Outcome)
    /\ file' \in TwiceFiles
    /\ self' = new_instance(self)
    /\ pc' = "init"
    /\ err' = "none"
    /\ out' = <<>>
    /\ reads' = {}
    /\ UNCHANGED <<parsed, df, annual, monthly>>

NextTwice ==
    \/ Construct
    \/ Parse
    \/ Dispatch
    \/ ReadGpx
    \/ ReadTcx
    \/ Summarize
    \/ Restart

SpecTwice == InitTwice /\ [][NextTwice]_vars

-----------------------------------------------------------------------------
(* The statistics reporter: annual_analysis and monthly_analysis.  Times are *)
(* whole seconds, distances whole meters; a quotient is kept as the pair of  *)
(* its operands; a NaN heart rate is the empty sequence.                     *)

Rat(n, d) == [num |-> n, den |-> d]

\* s_to_hms: "%i:%02i:%02i" of the two divmods
s_to_hms(sec) == [h |-> sec \div 3600, m |-> (sec % 3600) \div 60, s |-> (sec % 3600) % 60]

\* compute_pace: (km/h, "m:ss min/km"), or (0.0, 0.0) under one second; with
\* the numpy floats of a column sum a zero distance ends in "%2i" % nan
compute_pace(d, t) ==
    IF t < 1 THEN Ok([kmh |-> Rat(0, 1), pace |-> Rat(0, 1)])
    ELSE IF d = 0 THEN Raise("ValueError")
    ELSE LET tmp == (t * 1000) \div d
         IN Ok([kmh |-> Rat(d * 36, t * 10), pace |-> [m |-> tmp \div 60, s |-> tmp % 60]])

RECURSIVE ColumnSum(_, _)
\* df[c].sum()
ColumnSum(rows, c) ==
    IF rows = <<>> THEN 0 ELSE Head(rows)[c] + ColumnSum(Tail(rows), c)

\* the rows that carry a heart rate, and df['Average_Heart_Rate'].count() / .sum()
WithHR(rows) == LET has(a) == a.hr # <<>> IN SelectSeq(rows, has)
HRCount(rows) == Len(WithHR(rows))
RECURSIVE HRSum(_)
HRSum(rows) ==
    IF rows = <<>> THEN 0
    ELSE (IF Head(rows).hr = <<>> THEN 0 ELSE Head(rows).hr[1]) + HRSum(Tail(rows))

\* I) the rows of the year, and of the sport unless it is 'All'
YearSport(rows, year, sport) ==
    LET keep(a) == a.year = year /\ (sport # "All" => a.sport = sport)
    IN SelectSeq(rows, keep)

\* annual: df[df['Distance.1']>threshold] when a threshold is given
annual_filter(rows, threshold) ==
    LET keep(a) == a.dist > threshold
    IN IF threshold > 0 THEN SelectSeq(rows, keep) ELSE rows

\* monthly: df_i[df_i['Distance.1']>=threshold] when a threshold is given
monthly_filter(rows, threshold) ==
    LET keep(a) == a.dist >= threshold
    IN IF threshold > 0 THEN SelectSeq(rows, keep) ELSE rows

\* the four column sums
ColumnSums(rows) ==
    [elapsed |-> ColumnSum(rows, "elapsed"), moving |-> ColumnSum(rows, "moving"),
     dist |-> ColumnSum(rows, "dist"), elev |-> ColumnSum(rows, "elev")]

\* avg_bpm, computed only when some activity has a heart rate
AvgHR(rows) ==
    IF HRCount(rows) = 0 THEN <<>> ELSE <<Rat(HRSum(rows), HRCount(rows))>>

\* the sums are taken in step II, the threshold is applied in step III
annual_analysis(rows, year, sport, threshold) ==
    LET d0 == YearSport(rows, year, sport)
        n0 == Len(d0)
        c_sum == ColumnSums(d0)
        p == compute_pace(c_sum.dist, c_sum.moving)
        d1 == annual_filter(d0, threshold)
        n_act == Len(d1)
    IN IF p.err # "none" THEN [kind |-> "raised", err |-> p.err]
       ELSE [kind |-> "annual", year |-> year, sport |-> sport, threshold |-> threshold,
             found |-> n_act # 0,
             n_act |-> n_act,
             n_act_no_HR |-> n_act - HRCount(d1),
             n_filtered |-> n0 - n_act,
             elapsed |-> s_to_hms(c_sum.elapsed),
             moving |-> s_to_hms(c_sum.moving),
             dist |-> c_sum.dist,
             elev |-> c_sum.elev,
             kmh |-> p.val.kmh,
             pace |-> p.val.pace,
             avg_bpm |-> AvgHR(d1)]

\* one pass of the loop over the months
month_report(d0, i, threshold) ==
    LET inMonth(a) == a.month = i
        df_0 == SelectSeq(d0, inMonth)
        n0 == Len(df_0)
        df_i == monthly_filter(df_0, threshold)
        n_act == Len(df_i)
        c_sum == ColumnSums(df_i)
        p == compute_pace(c_sum.dist, c_sum.moving)
    IN IF n0 = 0
       THEN [recorded |-> 0, n_act |-> 0, n_filtered |-> 0, err |-> "none",
             moving_s |-> 0, dist |-> 0, elev |-> 0]
       ELSE IF p.err # "none"
       THEN [recorded |-> n0, n_act |-> n_act, n_filtered |-> n0 - n_act, err |-> p.err,
             moving_s |-> 0, dist |-> 0, elev |-> 0]
       ELSE [recorded |-> n0, n_act |-> n_act, n_filtered |-> n0 - n_act, err |-> "none",
             n_act_no_HR |-> n_act - HRCount(df_i),
             elapsed |-> s_to_hms(c_sum.elapsed),
             moving |-> s_to_hms(c_sum.moving),
             moving_s |-> c_sum.moving, dist |-> c_sum.dist, elev |-> c_sum.elev,
             kmh |-> p.val.kmh, pace |-> p.val.pace,
             avg_bpm |-> AvgHR(df_i)]

Months == 1..12

RECURSIVE MonthTotal(_, _, _)
\* data[k,:].sum() of the monthly values
MonthTotal(ms, c, i) == IF i > 12 THEN 0 ELSE ms[i][c] + MonthTotal(ms, c, i + 1)

monthly_analysis(rows, year, sport, threshold, with_figure) ==
    LET d0 == YearSport(rows, year, sport)
        below(a) == a.dist < threshold
        n0_filtered == IF threshold > 0 THEN Len(SelectSeq(d0, below)) ELSE 0
        total_act == Len(d0) - n0_filtered
        ms == [i \in Months |-> month_report(d0, i, threshold)]
        tot_moving == MonthTotal(ms, "moving_s", 1)
        tot_dist == MonthTotal(ms, "dist", 1)
        tot_elev == MonthTotal(ms, "elev", 1)
        \* compute_pace(res[1]*1000, res[0]) on the per-month averages
        p == IF tot_moving < 12 THEN Rat(0, 1) ELSE Rat(tot_dist * 36, tot_moving * 10)
        head == [kind |-> "monthly", year |-> year, sport |-> sport, threshold |-> threshold]
    IN IF total_act = 0 THEN head @@ [found |-> FALSE]
       ELSE IF \E i \in Months : ms[i].err # "none"
       THEN [kind |-> "raised",
             err |-> ms[CHOOSE i \in Months :
                          ms[i].err # "none" /\ \A j \in 1..(i - 1) : ms[j].err = "none"].err]
       ELSE head @@ [found |-> TRUE,
                     months |-> ms,
                     avg_moving |-> s_to_hms(tot_moving \div 12),
                     avg_dist |-> Rat(tot_dist, 12000),
                     avg_elev |-> Rat(tot_elev, 12),
                     avg_kmh |-> p,
                     figures |-> IF with_figure THEN {"_time", "_dist", "_ele", "_pace"} ELSE {}]

\* ---- inputs

Years == {2022, 2023}
Sports == {"Run", "Ride"}
Distances == {1000, 1200, 3000}
Thresholds == {0, 1200}

\* one row of the processed dataframe; the longest activities carry no heart rate
Activity(y, mo, sp, d) ==
    [year |-> y, month |-> mo, sport |-> sp, dist |-> d,
     moving |-> d \div 4, elapsed |-> d \div 4 + 60, elev |-> d \div 100,
     hr |-> IF d = 3000 THEN <<>> ELSE <<140>>]

ActivityPool ==
    {Activity(y, mo, sp, d) : y \in Years, mo \in {1, 2}, sp \in Sports, d \in Distances}

\* preprocess sorts the rows by date
SortedByDate(rows) ==
    \A i \in 1..(Len(rows) - 1) :
        \/ rows[i].year < rows[i + 1].year
        \/ rows[i].year = rows[i + 1].year /\ rows[i].month <= rows[i + 1].month

Datasets ==
    {rows \in UNION {[1..n -> ActivityPool] : n \in 0..MaxActivities} : SortedByDate(rows)}

InitAnalyzer ==
    /\ df \in Datasets
    /\ annual = NoReport
    /\ monthly = NoReport
    /\ file = File(Path_tcx, FALSE, FALSE, <<>>)
    /\ pc = "reporter"
    /\ self = NewObject
    /\ err = "none"
    /\ parsed = 0
    /\ out = <<>>
    /\ reads = {}
    /\ history = <<>>

AnnualAnalysis ==
    /\ pc = "reporter"
    /\ \E year \in Years, sport \in {"All", "Run"}, threshold \in Thresholds :
          annual' = annual_analysis(df, year, sport, threshold)
    /\ UNCHANGED <<file, pc, self, err, parsed, out, reads, history, df, monthly>>

MonthlyAnalysis ==
    /\ pc = "reporter"
    /\ \E year \in Years, sport \in {"All", "Run"}, threshold \in Thresholds,
          with_figure \in BOOLEAN :
          monthly' = monthly_analysis(df, year, sport, threshold, with_figure)
    /\ UNCHANGED <<file, pc, self, err, parsed, out, reads, history, df, annual>>

NextAnalyzer ==
    \/ AnnualAnalysis
    \/ MonthlyAnalysis

SpecAnalyzer == InitAnalyzer /\ [][NextAnalyzer]_vars

-----------------------------------------------------------------------------
(* What the documents hold, read off the node sequence directly *)

MetadataFields == {"sport", "start_time", "total_time", "total_dist",
                   "calories", "avg_bpm", "max_bpm", "device"}

\* the least index of a nonempty set of nodes, 0 for none: first in document order
FirstOf(S) == IF S = {} THEN 0 ELSE CHOOSE j \in S : \A i \in S : j <= i

WithTag(doc, tag) == {j \in 1..Len(doc) : doc[j].tag = tag}

\* the nodes tagged tag whose parent is tagged mid
WithTagUnder(doc, mid, tag) ==
    {j \in WithTag(doc, tag) : doc[j].parent # 0 /\ doc[doc[j].parent].tag = mid}

ChildrenOf(doc, p, tag) == {j \in WithTag(doc, tag) : doc[j].parent = p}

GrandChildrenOf(doc, p, mid, tag) ==
    {j \in WithTagUnder(doc, mid, tag) : doc[doc[j].parent].parent = p}

\* the element nodes of a TCX trackpoint that carry its six fields, 0 when missing
TcxFieldNode(doc, tp, k) ==
    CASE k = 1 -> FirstOf(ChildrenOf(doc, tp, Tcx("Time")))
      [] k = 2 -> FirstOf(GrandChildrenOf(doc, tp, Tcx("Position"), Tcx("LatitudeDegrees")))
      [] k = 3 -> FirstOf(GrandChildrenOf(doc, tp, Tcx("Position"), Tcx("LongitudeDegrees")))
      [] k = 4 -> FirstOf(ChildrenOf(doc, tp, Tcx("AltitudeMeters")))
      [] k = 5 -> FirstOf(ChildrenOf(doc, tp, Tcx("DistanceMeters")))
      [] k = 6 -> FirstOf(GrandChildrenOf(doc, tp, Tcx("HeartRateBpm"), Tcx("Value")))

\* the value an element stands for: its text, as a real for the numeric fields
ValueAt(doc, j, numeric) ==
    IF numeric THEN ToFloat(doc[j].text).val ELSE TextOf(doc[j].text)

\* the value of the first element of S, or the default when S is empty
FirstValue(doc, S, numeric, default) ==
    IF S = {} THEN default ELSE ValueAt(doc, FirstOf(S), numeric)

ExpectedTcxRow(doc, tp) ==
    [k \in 1..6 |->
        IF TcxFieldNode(doc, tp, k) = 0 THEN PyNone
        ELSE ValueAt(doc, TcxFieldNode(doc, tp, k), k # 1)]

\* the nodes whose text the TCX reader converts with float()
TcxNumericNodes(doc) ==
    WithTag(doc, Tcx("TotalTimeSeconds")) \cup WithTag(doc, Tcx("DistanceMeters"))
    \cup WithTag(doc, Tcx("Calories")) \cup WithTag(doc, Tcx("AltitudeMeters"))
    \cup WithTag(doc, Tcx("LatitudeDegrees")) \cup WithTag(doc, Tcx("LongitudeDegrees"))
    \cup WithTag(doc, Tcx("Value"))

AllNumeric(doc) == \A j \in TcxNumericNodes(doc) : ToFloat(doc[j].text).err = "none"

\* as the TCX schema has it: trackpoints sit in tracks, tracks do not nest
ValidTcx(doc) ==
    /\ AllNumeric(doc)
    /\ \A j \in WithTag(doc, Tcx("Trackpoint")) :
          doc[j].parent # 0 /\ doc[doc[j].parent].tag = Tcx("Track")
    /\ \A j \in WithTag(doc, Tcx("Track")) :
          \A c \in WithTag(doc, Tcx("Track")) : ~IsDescendant(doc, j, c)

UnsupportedSuffix(p) == ~EndsWith(p, Suffix_gpx) /\ ~EndsWith(p, Suffix_tcx)

\* the file is read as TCX / as GPX
TcxFile == file.exists /\ file.wellformed /\ EndsWith(file.path, Suffix_tcx)
GpxFile == file.exists /\ file.wellformed /\ EndsWith(file.path, Suffix_gpx)

Parsed == pc \in {"done", "summarized", "summarize_raised"}
DataRows == self.d["data"].rows

-----------------------------------------------------------------------------
(* Claims *)

\* C1: constructing an activity from an existing path whose suffix is neither
\* '.gpx' nor '.tcx' fails with TypeError whatever the content, well-formed XML
\* or not, and with no other error kind.
C1_UnsupportedSuffixRaisesTypeError ==
    (file.exists /\ UnsupportedSuffix(file.path))
        => /\ ~Parsed
           /\ pc = "raised" => err = "TypeError"

\* C2: a path that does not exist fails with FileNotFoundError before any
\* parse or dispatch step: ET.parse is never called for it, whatever the suffix.
C2_MissingPathFailsBeforeParse ==
    ~file.exists
        => /\ parsed = 0
           /\ pc \in {"init", "raised"}
           /\ pc = "raised" => err = "FileNotFoundError"
           /\ ~HasAttr(self, "root") /\ ~HasAttr(self, "namespace")

C2_Witness ==
    /\ ~file.exists
    /\ file.path = Path_tcx
    /\ pc = "raised"
    /\ err = "FileNotFoundError"
    /\ parsed = 0

\* C3: after every successful parse, GPX or TCX, each of the eight metadata
\* fields of the record is set.
C3_AllMetadataFieldsSet ==
    Parsed => \A k \in MetadataFields : HasAttr(self, k)

\* C4: after a successful TCX parse start_time is the text of the first Id
\* element in document order, or "Unknown" when there is none, with or without
\* a TotalTimeSeconds element.
C4_StartTimeIsFirstId ==
    (TcxFile /\ Parsed)
        => self.d["start_time"]
             = FirstValue(file.doc, WithTag(file.doc, Tcx("Id")), FALSE, Unknown)

\* C5: a well-formed TCX document without an Activity element, or whose first
\* Activity has no Sport attribute, parses successfully with sport "Unknown";
\* otherwise sport is the Sport attribute of the first Activity.
C5_SportOrUnknown ==
    LET acts == WithTag(file.doc, Tcx("Activity"))
        noSport == acts = {} \/ "Sport" \notin DOMAIN file.doc[FirstOf(acts)].attrs
    IN TcxFile
        => /\ (noSport /\ AllNumeric(file.doc)) => pc # "raised"
           /\ Parsed => self.d["sport"]
                          = IF noSport THEN Unknown
                            ELSE PyStr(file.doc[FirstOf(acts)].attrs["Sport"])

C7_RowsAreTrackpointsInOrder ==
    LET doc == file.doc
        tps == Ascending(WithTag(doc, Tcx("Trackpoint")), 1, Len(doc))
    IN (TcxFile /\ ValidTcx(doc) /\ Parsed)
        => /\ Len(DataRows) = Len(tps)
           /\ \A k \in 1..Len(tps) : DataRows[k] = ExpectedTcxRow(doc, tps[k])

\* three different trackpoints spread over two tracks
C7_Witness ==
    /\ TcxFile /\ ValidTcx(file.doc) /\ Parsed
    /\ Cardinality(WithTag(file.doc, Tcx("Track"))) = 2
    /\ Len(DataRows) = 3
    /\ \A j \in WithTag(file.doc, Tcx("Track")) :
          ChildrenOf(file.doc, j, Tcx("Trackpoint")) # {}
    /\ DataRows[1] # DataRows[2] /\ DataRows[2] # DataRows[3] /\ DataRows[1] # DataRows[3]

\* C8: summarize on a record with fewer than three trackpoints prints the
\* metadata and the trackpoint count and returns without the detail flags; it
\* reads no cell of the trackpoint sequence, so none out of range.
C8_ShortTrackNoDetail ==
    (pc \in {"summarized", "summarize_raised"} /\ Len(DataRows) < 3)
        => /\ pc = "summarized"
           /\ err = "none"
           /\ reads = {}
           /\ \A i \in 1..Len(out) : out[i].key \notin Flags
           /\ out[Len(out)] = Line("trackpoints", PyInt(Len(DataRows)))
           /\ \A k \in (DOMAIN self.d) \ Hidden :
                \E i \in 1..Len(out) : out[i] = Line(k, self.d[k])

C8_Witness ==
    /\ pc = "summarized"
    /\ Len(DataRows) = 2
    /\ out[Len(out)] = Line("trackpoints", PyInt(2))

\* C9: after a successful TCX parse total distance, calories, average and
\* maximum heart rate are the real-parsed text of the first DistanceMeters,
\* Calories, AverageHeartRateBpm/Value and MaximumHeartRateBpm/Value element in
\* document order, 0.0 when there is none; the first DistanceMeters counts even
\* when it belongs to a trackpoint.
C9_TotalsAreFirstMatches ==
    LET doc == file.doc
    IN (TcxFile /\ Parsed)
        => /\ self.d["total_dist"]
                = FirstValue(doc, WithTag(doc, Tcx("DistanceMeters")), TRUE, Zero)
           /\ self.d["calories"]
                = FirstValue(doc, WithTag(doc, Tcx("Calories")), TRUE, Zero)
           /\ self.d["avg_bpm"]
                = FirstValue(doc, WithTagUnder(doc, Tcx("AverageHeartRateBpm"), Tcx("Value")),
                             TRUE, Zero)
           /\ self.d["max_bpm"]
                = FirstValue(doc, WithTagUnder(doc, Tcx("MaximumHeartRateBpm"), Tcx("Value")),
                             TRUE, Zero)

\* no lap-level DistanceMeters: the total is the first trackpoint's 50.0
C9_Witness ==
    /\ TcxFile /\ Parsed
    /\ WithTagUnder(file.doc, Tcx("Lap"), Tcx("DistanceMeters")) = {}
    /\ WithTag(file.doc, Tcx("DistanceMeters")) # {}
    /\ self.d["total_dist"] = PyFloat(50, 1)
    /\ self.d["calories"] = PyFloat(300, 1)

\* C10: after a successful GPX parse every trackpoint's distance is 0.0, the
\* five totals are exactly 0.0 and the device name is "Unknown", whatever
\* elements the document contains.
C10_GpxFixedDefaults ==
    (GpxFile /\ Parsed)
        => /\ \A k \in {"total_time", "total_dist", "calories", "avg_bpm", "max_bpm"} :
                HasAttr(self, k) /\ self.d[k] = PyFloat(0, 1)
           /\ HasAttr(self, "device") /\ self.d["device"] = Unknown
           /\ \A i \in 1..Len(DataRows) : DataRows[i][5] = PyFloat(0, 1)

\* a GPX document that does hold distance and summary-like elements
C10_Witness ==
    /\ GpxFile /\ Parsed
    /\ WithTag(file.doc, Gpx("dist")) # {}
    /\ WithTag(file.doc, Gpx("Calories")) # {}
    /\ \E j \in WithTag(file.doc, Gpx("trkpt")) : ChildrenOf(file.doc, j, Gpx("dist")) # {}
    /\ Len(DataRows) >= 2

PassThreshold(year, sport, threshold) ==
    LET pass(a) == /\ a.year = year
                   /\ (sport # "All" => a.sport = sport)
                   /\ a.dist > threshold
    IN SelectSeq(df, pass)

\* C12: annual_analysis with a threshold T > 0 reports the analysis of the
\* activities of the year and sport whose distance is greater than T: the
\* totals (elapsed time, moving time, distance, elevation gain, average speed)
\* are sums over exactly those activities, the same ones the activity count and
\* the average heart rate are computed from.
C12_TotalsOverFilteredActivities ==
    (annual.kind = "annual" /\ annual.threshold > 0 /\ annual.found)
        => LET kept == PassThreshold(annual.year, annual.sport, annual.threshold)
               dist == ColumnSum(kept, "dist")
               moving == ColumnSum(kept, "moving")
           IN /\ annual.n_act = Len(kept)
              /\ annual.avg_bpm = AvgHR(kept)
              /\ annual.elapsed = s_to_hms(ColumnSum(kept, "elapsed"))
              /\ annual.moving = s_to_hms(moving)
              /\ annual.dist = dist
              /\ annual.elev = ColumnSum(kept, "elev")
              /\ annual.kmh = Rat(dist * 36, moving * 10)

\* C13: summarize never fails on a parsed record with three or more
\* trackpoints, a TCX record whose second trackpoint has no DistanceMeters
\* included: it completes and prints all five detail flags.
C13_SummarizeNeverFails ==
    (pc \in {"summarized", "summarize_raised"} /\ Len(DataRows) >= 3)
        => /\ pc = "summarized"
           /\ err = "none"
           /\ \A k \in Flags : \E i \in 1..Len(out) : out[i].key = k

RECURSIVE SumOverMonths(_, _, _)
SumOverMonths(ms, c, i) == IF i > 12 THEN 0 ELSE ms[i][c] + SumOverMonths(ms, c, i + 1)

\* C14: for the same dataset, year, sport and threshold T > 0 the annual and
\* the monthly report apply the same distance filter: the annual report
\* retains as many activities as the twelve months of the monthly report
\* together, and reports as many as filtered, an activity of distance exactly
\* T included.
C14_SameDistanceFilter ==
    (/\ annual.kind = "annual"
     /\ monthly.kind = "monthly"
     /\ annual.year = monthly.year
     /\ annual.sport = monthly.sport
     /\ annual.threshold = monthly.threshold
     /\ annual.threshold > 0)
        => /\ annual.n_act = IF monthly.found
                                THEN SumOverMonths(monthly.months, "n_act", 1)
                                ELSE 0
           /\ (annual.found /\ monthly.found)
                => annual.n_filtered = SumOverMonths(monthly.months, "n_filtered", 1)

=============================================================================
